---- MODULE Spec2Model ----
(***************************************************************************)
(* ByteTree serialization (include/swift/Basic/ByteTreeSerialization.h).   *)
(*                                                                         *)
(* The model is an interpreter of one call of the root emitter             *)
(* ByteTreeWriter::write(ProtocolVersion, StreamWriter, Object).  The      *)
(* value Object carries the behaviour of the traits of its type: the       *)
(* count ObjectTraits::numFields returns and the Writer.write calls        *)
(* ObjectTraits::write makes, the size ScalarTraits::size returns and the  *)
(* bytes ScalarTraits::write writes, the delegate calls                    *)
(* WrapperTypeTraits::write makes.  The C++ call stack is the sequence     *)
(* frames, the live ByteTreeWriter instances the sequence writers.         *)
(* assert() is checked in a validating build (NDEBUG not defined) and      *)
(* compiled out otherwise.                                                 *)
(***************************************************************************)
EXTENDS Integers, Sequences, FiniteSets, TLC

\* A 32-bit unsigned value is held as the 32-bit two's-complement integer with
\* the same bits (TLC's integers are 32 bits wide): 0 .. 2^31-1 are themselves,
\* 2^32-1 is -1.  All values met are small or UINT_MAX, so sums never leave
\* the range: x + 1 is the increment mod 2^32 (UINT_MAX + 1 = 0), and
\* i + UINT_MAX is i - 1 mod 2^32.
UINT_MAX == -1

\* a < b on unsigned values.
ULess(a, b) == IF (a < 0) = (b < 0) THEN a < b ELSE b < 0

\* Bounds of the explored inputs.
MaxFields == 2
MaxDepth == 3
MaxLen == 1
MaxDelegates == 2

VARIABLES
  validating,       \* the build checks assert()
  capacity,         \* {c}: the stream behind StreamWriter holds c bytes; {}: it grows
  ProtocolVersion,  \* argument of the root emitter
  Object,           \* argument of the root emitter: the root value
  sink,             \* bytes written through StreamWriter (its offset is Len(sink))
  writers,          \* live ByteTreeWriter instances, innermost last
  frames,           \* activations of the traits' write functions, innermost last
  status,           \* "ready", "running", "returned" or "fatal" (an assert fired)
  violation,        \* the message of the assert that fired
  sinkFailed,       \* history: a write on the sink has returned an error
  sinkAtFailure,    \* history: the sink when the first such error was returned
  closed,           \* history: the writers destroyed so far
  scalars           \* history: the scalar field writes that ran to their end

vars == <<validating, capacity, ProtocolVersion, Object, sink, writers, frames,
          status, violation, sinkFailed, sinkAtFailure, closed, scalars>>

----------------------------------------------------------------------------
\* Values and the behaviour of their traits.

Node(k, n, b, bytes, calls) ==
  [kind |-> k, n |-> n, b |-> b, bytes |-> bytes, calls |-> calls]

U8(v) == Node("uint8_t", v, FALSE, <<>>, <<>>)
U16(v) == Node("uint16_t", v, FALSE, <<>>, <<>>)
U32(v) == Node("uint32_t", v, FALSE, <<>>, <<>>)
Str(s) == Node("StringRef", 0, FALSE, s, <<>>)
None == Node("NoneType", 0, FALSE, <<>>, <<>>)
Bool(b) == Node("bool", 0, b, <<>>, <<>>)
\* A type with its own ScalarTraits: size returns L, write writes bs.
UScalar(L, bs) == Node("scalar", L, FALSE, bs, <<>>)
\* A type with its own WrapperTypeTraits: write makes the calls cs on the
\* writer it is given, call c at index Index + c.idx.
UWrap(cs) == Node("wrapper", 0, FALSE, <<>>, cs)
\* A type with ObjectTraits: numFields returns K, write makes the calls cs
\* on the writer it is given, call c at index c.idx.
Obj(K, cs) == Node("object", K, FALSE, <<>>, cs)

Arg(v, i) == [val |-> v, idx |-> i]

ScalarKinds == {"uint8_t", "uint16_t", "uint32_t", "StringRef", "NoneType", "scalar"}
WrapperKinds == {"bool", "wrapper"}

\* The types for which none or more than one of the traits templates is
\* specialised; such a type has no value the writer ever sees.
UntraitedKinds ==
  {"no traits", "object+scalar", "object+wrapper", "scalar+wrapper",
   "object+scalar+wrapper"}
Typed(k) == Node(k, 0, FALSE, <<>>, <<>>)

\* The traits templates specialised for the type of v with the members the
\* detectors look for.
Traits == {"ObjectTraits", "ScalarTraits", "WrapperTypeTraits"}
Specialized(v) ==
  CASE v.kind = "object" -> {"ObjectTraits"}
    [] v.kind \in ScalarKinds -> {"ScalarTraits"}
    [] v.kind \in WrapperKinds -> {"WrapperTypeTraits"}
    [] v.kind = "no traits" -> {}
    [] v.kind = "object+scalar" -> {"ObjectTraits", "ScalarTraits"}
    [] v.kind = "object+wrapper" -> {"ObjectTraits", "WrapperTypeTraits"}
    [] v.kind = "scalar+wrapper" -> {"ScalarTraits", "WrapperTypeTraits"}
    [] v.kind = "object+scalar+wrapper" -> Traits

has_ObjectTraits(v) == "ObjectTraits" \in Specialized(v)
has_ScalarTraits(v) == "ScalarTraits" \in Specialized(v)
has_WrapperTypeTraits(v) == "WrapperTypeTraits" \in Specialized(v)

\* Little-endian bytes of an integer of w bytes (BinaryStreamWriter::writeInteger);
\* \div rounds down, so the bytes of UINT_MAX are 255, 255, 255, 255.
LE(n, w) == [k \in 1..w |-> (n \div (256 ^ (k - 1))) % 256]

----------------------------------------------------------------------------
\* The state the operations below transform, as one record.

M ==
  [sink |-> sink, writers |-> writers, frames |-> frames, status |-> status,
   violation |-> violation, sinkFailed |-> sinkFailed,
   sinkAtFailure |-> sinkAtFailure, closed |-> closed, scalars |-> scalars,
   Error |-> FALSE]

Top(s) == s[Len(s)]
Pop(s) == SubSeq(s, 1, Len(s) - 1)

\* assert(cond && msg): aborts the process in a validating build, is compiled
\* out otherwise.  Nothing runs after an abort.
assert(m, cond, msg) ==
  IF m.status = "fatal" \/ ~validating \/ cond
  THEN m
  ELSE [m EXCEPT !.status = "fatal", !.violation = msg]

\* BinaryStreamWriter::writeBytes: appends the bytes and advances the offset, or
\* returns an error and leaves stream and offset alone when they do not fit.
writeBytes(m, bs) ==
  IF m.status = "fatal" THEN m
  ELSE IF \A c \in capacity : Len(m.sink) + Len(bs) <= c
  THEN [m EXCEPT !.sink = @ \o bs, !.Error = FALSE]
  ELSE [m EXCEPT !.Error = TRUE, !.sinkFailed = TRUE,
                 !.sinkAtFailure = IF m.sinkFailed THEN @ ELSE m.sink]

writeInteger(m, n, w) == writeBytes(m, LE(n, w))

\* ByteTreeWriter(StreamWriter): NumFields = UINT_MAX, CurrentFieldIndex = 0.
\* History: accepted, the indices that passed validateAndIncreaseFieldIndex;
\* CountOffset, the offset at which setNumFields wrote the count, -1 if none;
\* Declarations, the number of assignments to NumFields.
ByteTreeWriter ==
  [NumFields |-> UINT_MAX, CurrentFieldIndex |-> 0, accepted |-> <<>>,
   CountOffset |-> -1, Declarations |-> 0]

construct(m) ==
  IF m.status = "fatal" THEN m
  ELSE [m EXCEPT !.writers = Append(@, ByteTreeWriter)]

\* As destroy, without the check of the count.
destroy_unchecked(m) ==
  IF m.status = "fatal" THEN m
  ELSE [m EXCEPT !.writers = Pop(@), !.closed = Append(@, Top(m.writers))]

\* ~ByteTreeWriter of the innermost writer.
destroy(m) ==
  LET w == Top(m.writers)
      m1 == assert(m, w.CurrentFieldIndex = w.NumFields,
                   "Object had more or less elements than specified")
  IN IF m1.status = "fatal" THEN m1
     ELSE [m1 EXCEPT !.writers = Pop(@), !.closed = Append(@, w)]

\* As setNumFields, without the check that the count is not UINT_MAX.
setNumFields_unreserved(m, NumFields) ==
  LET w == Top(m.writers)
      m2 == assert(m, w.NumFields = UINT_MAX, "NumFields has already been set")
      m3 == writeInteger(m2, NumFields, 4)
      m4 == assert(m3, ~m3.Error, "!Error")
  IN IF m4.status = "fatal" THEN m4
     ELSE [m4 EXCEPT !.writers[Len(m.writers)] =
             [w EXCEPT !.NumFields = NumFields,
                       !.Declarations = @ + 1,
                       !.CountOffset = IF m3.Error THEN -1 ELSE Len(m.sink)]]

\* As setNumFields, without the check that the count is still unset.
setNumFields_again(m, NumFields) ==
  LET w == Top(m.writers)
      m1 == assert(m, NumFields # UINT_MAX,
                   "NumFields may not be reset since it has already been written to the byte stream")
      m3 == writeInteger(m1, NumFields, 4)
      m4 == assert(m3, ~m3.Error, "!Error")
  IN IF m4.status = "fatal" THEN m4
     ELSE [m4 EXCEPT !.writers[Len(m.writers)] =
             [w EXCEPT !.NumFields = NumFields,
                       !.Declarations = @ + 1,
                       !.CountOffset = IF m3.Error THEN -1 ELSE Len(m.sink)]]

setNumFields(m, NumFields) ==
  LET w == Top(m.writers)
      m1 == assert(m, NumFields # UINT_MAX,
                   "NumFields may not be reset since it has already been written to the byte stream")
      m2 == assert(m1, w.NumFields = UINT_MAX, "NumFields has already been set")
      m3 == writeInteger(m2, NumFields, 4)
      m4 == assert(m3, ~m3.Error, "!Error")
  IN IF m4.status = "fatal" THEN m4
     ELSE [m4 EXCEPT !.writers[Len(m.writers)] =
             [w EXCEPT !.NumFields = NumFields,
                       !.Declarations = @ + 1,
                       !.CountOffset = IF m3.Error THEN -1 ELSE Len(m.sink)]]

\* As validateAndIncreaseFieldIndex, without the check of the order.
validateAndIncreaseFieldIndex_unordered(m, Index) ==
  LET w == Top(m.writers)
      m1 == assert(m, w.NumFields # UINT_MAX,
                   "setNumFields must be called before writing any value")
      m3 == assert(m1, ULess(Index, w.NumFields),
                   "Writing more fields than object is expected to have")
  IN IF m3.status = "fatal" THEN m3
     ELSE [m3 EXCEPT !.writers[Len(m.writers)] =
             [w EXCEPT !.CurrentFieldIndex = @ + 1,
                       !.accepted = Append(@, Index)]]

\* As validateAndIncreaseFieldIndex, without the increment of the index.
validateAndIncreaseFieldIndex_stuck(m, Index) ==
  LET w == Top(m.writers)
      m1 == assert(m, w.NumFields # UINT_MAX,
                   "setNumFields must be called before writing any value")
      m2 == assert(m1, Index = w.CurrentFieldIndex, "Writing index out of order")
      m3 == assert(m2, ULess(Index, w.NumFields),
                   "Writing more fields than object is expected to have")
  IN IF m3.status = "fatal" THEN m3
     ELSE [m3 EXCEPT !.writers[Len(m.writers)] =
             [w EXCEPT !.accepted = Append(@, Index)]]

\* As validateAndIncreaseFieldIndex, without the check against the count.
validateAndIncreaseFieldIndex_unbounded(m, Index) ==
  LET w == Top(m.writers)
      m1 == assert(m, w.NumFields # UINT_MAX,
                   "setNumFields must be called before writing any value")
      m2 == assert(m1, Index = w.CurrentFieldIndex, "Writing index out of order")
  IN IF m2.status = "fatal" THEN m2
     ELSE [m2 EXCEPT !.writers[Len(m.writers)] =
             [w EXCEPT !.CurrentFieldIndex = @ + 1,
                       !.accepted = Append(@, Index)]]

validateAndIncreaseFieldIndex(m, Index) ==
  LET w == Top(m.writers)
      m1 == assert(m, w.NumFields # UINT_MAX,
                   "setNumFields must be called before writing any value")
      m2 == assert(m1, Index = w.CurrentFieldIndex, "Writing index out of order")
      m3 == assert(m2, ULess(Index, w.NumFields),
                   "Writing more fields than object is expected to have")
  IN IF m3.status = "fatal" THEN m3
     ELSE [m3 EXCEPT !.writers[Len(m.writers)] =
             [w EXCEPT !.CurrentFieldIndex = @ + 1,
                       !.accepted = Append(@, Index)]]

\* As static_cast_uint8_t, with true as 255.
static_cast_uint8_t_ones(b) == IF b THEN 255 ELSE 0

\* static_cast<uint8_t>(bool)
static_cast_uint8_t(b) == IF b THEN 1 ELSE 0

\* As ScalarTraits_size, with NoneType of size 1.
ScalarTraits_size_none1(v) ==
  CASE v.kind = "uint8_t" -> 1
    [] v.kind = "uint16_t" -> 2
    [] v.kind = "uint32_t" -> 4
    [] v.kind = "StringRef" -> Len(v.bytes)
    [] v.kind = "NoneType" -> 1
    [] v.kind = "scalar" -> v.n

\* ScalarTraits<T>::size(Value)
ScalarTraits_size(v) ==
  CASE v.kind = "uint8_t" -> 1
    [] v.kind = "uint16_t" -> 2
    [] v.kind = "uint32_t" -> 4
    [] v.kind = "StringRef" -> Len(v.bytes)
    [] v.kind = "NoneType" -> 0
    [] v.kind = "scalar" -> v.n

\* As ScalarTraits_bytes, with uint32_t written as two bytes.
ScalarTraits_bytes_narrow(v) ==
  CASE v.kind = "uint8_t" -> LE(v.n, 1)
    [] v.kind = "uint16_t" -> LE(v.n, 2)
    [] v.kind = "uint32_t" -> LE(v.n, 2)
    [] v.kind = "StringRef" -> v.bytes
    [] v.kind = "NoneType" -> <<>>
    [] v.kind = "scalar" -> v.bytes

\* The bytes ScalarTraits<T>::write(Writer, Value) hands to the stream writer.
ScalarTraits_bytes(v) ==
  CASE v.kind = "uint8_t" -> LE(v.n, 1)
    [] v.kind = "uint16_t" -> LE(v.n, 2)
    [] v.kind = "uint32_t" -> LE(v.n, 4)
    [] v.kind = "StringRef" -> v.bytes
    [] v.kind = "NoneType" -> <<>>
    [] v.kind = "scalar" -> v.bytes

ScalarTraits_write(m, v) == writeBytes(m, ScalarTraits_bytes(v))

\* The Writer.write calls the write function of a type's traits makes.
TraitsCalls(v) ==
  IF v.kind = "bool"
  THEN <<Arg(U8(static_cast_uint8_t(v.b)), 0)>>
  ELSE v.calls

\* An activation: of the static write ("root", its one call is
\* Writer.write(Object, 0)), of ObjectTraits<T>::write ("object") or of
\* WrapperTypeTraits<T>::write ("wrapper"); pos is the call it makes next.
Frame(k, v, Index, L) ==
  [kind |-> k, node |-> v, pos |-> 1, Index |-> Index, LengthBeforeWrite |-> L]

FrameCalls(f) ==
  IF f.kind = "root" THEN <<Arg(f.node, 0)>> ELSE TraitsCalls(f.node)

enter(m, f) ==
  IF m.status = "fatal" THEN m
  ELSE [m EXCEPT !.frames = Append(@, f)]

leave(m) ==
  IF m.status = "fatal" THEN m
  ELSE [m EXCEPT !.frames = Pop(@)]

\* The call the innermost running traits function makes next, its index, and
\* the state in which the caller resumes after it.
HasCallIn(m) == Top(m.frames).pos <= Len(FrameCalls(Top(m.frames)))
CallIn(m) == FrameCalls(Top(m.frames))[Top(m.frames).pos]
CallIndexIn(m) ==
  IF Top(m.frames).kind = "wrapper"
  THEN Top(m.frames).Index + CallIn(m).idx
  ELSE CallIn(m).idx
CalledIn(m) == [m EXCEPT !.frames[Len(m.frames)].pos = @ + 1]

\* As write_Object, without the validation of the index on the parent.
write_Object_unvalidated(m, v, Index) ==
  LET m2 == construct(m)
      m3 == setNumFields(m2, v.n)
  IN enter(m3, Frame("object", v, Index, 0))

\* As write_Object, with a length written before the count of the child.
write_Object_framed(m, v, Index) ==
  LET m1 == validateAndIncreaseFieldIndex(m, Index)
      m2 == writeInteger(m1, 4, 4)
      m3 == setNumFields(construct(m2), v.n)
  IN enter(m3, Frame("object", v, Index, 0))

\* write(const T &Object, unsigned Index), T with ObjectTraits, up to the
\* call of ObjectTraits<T>::write.
write_Object(m, v, Index) ==
  LET m1 == validateAndIncreaseFieldIndex(m, Index)
      m2 == construct(m1)
      m3 == setNumFields(m2, v.n)
  IN enter(m3, Frame("object", v, Index, 0))

\* As return_Object, with ObjectWriter left alive.
return_Object_leaked(m) == leave(m)

\* The return of ObjectTraits<T>::write and the end of write(Object, Index):
\* ObjectWriter is destroyed.
return_Object(m) == leave(destroy(m))

\* As write_Scalar, with the index validated after the length is written.
write_Scalar_late(m, v, Index) ==
  LET ValueSize == ScalarTraits_size(v)
      m1 == writeInteger(m, ValueSize, 4)
      m2 == validateAndIncreaseFieldIndex(m1, Index)
      m3 == assert(m2, ~m1.Error, "!SizeError")
      StartOffset == Len(m3.sink)
      m4 == ScalarTraits_write(m3, v)
      m5 == assert(m4, ~m4.Error, "!ContentError")
      m6 == assert(m5, Len(m5.sink) - StartOffset = ValueSize,
                   "Number of written bytes does not match size returned by ScalarTraits<T>::size")
  IN IF m6.status = "fatal" THEN m6
     ELSE [m6 EXCEPT !.scalars = Append(@,
             [ValueSize |-> ValueSize, StartOffset |-> StartOffset,
              EndOffset |-> Len(m6.sink), failed |-> m1.Error \/ m4.Error])]

\* As write_Scalar, without the check of the bytes written.
write_Scalar_unchecked(m, v, Index) ==
  LET m1 == validateAndIncreaseFieldIndex(m, Index)
      ValueSize == ScalarTraits_size(v)
      m2 == writeInteger(m1, ValueSize, 4)
      m3 == assert(m2, ~m2.Error, "!SizeError")
      StartOffset == Len(m3.sink)
      m4 == ScalarTraits_write(m3, v)
      m6 == assert(m4, ~m4.Error, "!ContentError")
  IN IF m6.status = "fatal" THEN m6
     ELSE [m6 EXCEPT !.scalars = Append(@,
             [ValueSize |-> ValueSize, StartOffset |-> StartOffset,
              EndOffset |-> Len(m6.sink), failed |-> m2.Error \/ m4.Error])]

\* write(const T &Value, unsigned Index), T with ScalarTraits.
write_Scalar(m, v, Index) ==
  LET m1 == validateAndIncreaseFieldIndex(m, Index)
      ValueSize == ScalarTraits_size(v)
      m2 == writeInteger(m1, ValueSize, 4)
      m3 == assert(m2, ~m2.Error, "!SizeError")
      StartOffset == Len(m3.sink)
      m4 == ScalarTraits_write(m3, v)
      m5 == assert(m4, ~m4.Error, "!ContentError")
      m6 == assert(m5, Len(m5.sink) - StartOffset = ValueSize,
                   "Number of written bytes does not match size returned by ScalarTraits<T>::size")
  IN IF m6.status = "fatal" THEN m6
     ELSE [m6 EXCEPT !.scalars = Append(@,
             [ValueSize |-> ValueSize, StartOffset |-> StartOffset,
              EndOffset |-> Len(m6.sink), failed |-> m2.Error \/ m4.Error])]

\* write(const T &Value, unsigned Index), T with WrapperTypeTraits, up to the
\* call of WrapperTypeTraits<T>::write.
write_Wrapper(m, v, Index) ==
  LET LengthBeforeWrite == Top(m.writers).CurrentFieldIndex
  IN enter(m, Frame("wrapper", v, Index, LengthBeforeWrite))

\* As return_Wrapper, without the check of the delegate write.
return_Wrapper_unchecked(m) == leave(m)

\* The return of WrapperTypeTraits<T>::write and the end of write(Value, Index).
return_Wrapper(m) ==
  LET f == Top(m.frames)
      m1 == assert(m, Top(m.writers).CurrentFieldIndex = f.LengthBeforeWrite + 1,
                   "WrapperTypeTraits did not call BinaryWriter.write")
  IN leave(m1)

\* As Viable, with the overload for ScalarTraits left without its enable_if.
Viable_scalar_unconstrained(v) ==
  {o \in {"Object", "Scalar", "Wrapper"} :
     \/ o = "Object" /\ has_ObjectTraits(v)
     \/ o = "Scalar"
     \/ o = "Wrapper" /\ has_WrapperTypeTraits(v)}

\* The overloads of write(Value, Index) that std::enable_if leaves in the
\* overload set for the type of v.
Viable(v) ==
  {o \in {"Object", "Scalar", "Wrapper"} :
     \/ o = "Object" /\ has_ObjectTraits(v)
     \/ o = "Scalar" /\ has_ScalarTraits(v)
     \/ o = "Wrapper" /\ has_WrapperTypeTraits(v)}

\* Writer.write(Value, Index) compiles: one overload is left (none: no matching
\* function; more than one: the call is ambiguous, the overloads have the same
\* parameters).
Resolves(v) == Cardinality(Viable(v)) = 1

\* Writer.write(Value, Index) compiles, and so do the calls in the write
\* functions of the traits it instantiates.
RECURSIVE Instantiates(_)
Instantiates(v) ==
  /\ Resolves(v)
  /\ \A i \in 1..Len(TraitsCalls(v)) : Instantiates(TraitsCalls(v)[i].val)

\* The static write compiles for the type of v: its enable_if holds and its
\* body instantiates Writer.write(Object, 0).
Instantiates_Root(v) == has_ObjectTraits(v) /\ Instantiates(v)

\* Overload resolution of Writer.write(Value, Index) by the traits of the type.
write(m, v, Index) ==
  CASE Viable(v) = {"Object"} -> write_Object(m, v, Index)
    [] Viable(v) = {"Scalar"} -> write_Scalar(m, v, Index)
    [] Viable(v) = {"Wrapper"} -> write_Wrapper(m, v, Index)

\* As write_Root, with the count of the synthetic writer set by setNumFields.
write_Root_counted(m, Version, v) ==
  LET m1 == construct([m EXCEPT !.status = "running"])
      m2 == writeInteger(m1, Version, 4)
      m3 == assert(m2, ~m2.Error, "!Error")
      m4 == setNumFields(m3, 1)
      m5 == enter(m4, [Frame("root", v, 0, 0) EXCEPT !.pos = 2])
  IN write(m5, v, 0)

\* static write(ProtocolVersion, StreamWriter, Object), up to the call of
\* ObjectTraits<T>::write for the root.
write_Root(m, Version, v) ==
  LET m1 == construct([m EXCEPT !.status = "running"])
      m2 == writeInteger(m1, Version, 4)
      m3 == assert(m2, ~m2.Error, "!Error")
      m4 == IF m3.status = "fatal" THEN m3
            ELSE [m3 EXCEPT !.writers[Len(m3.writers)].NumFields = 1,
                            !.writers[Len(m3.writers)].Declarations = @ + 1]
      m5 == enter(m4, [Frame("root", v, 0, 0) EXCEPT !.pos = 2])
  IN write(m5, v, 0)

\* The end of the static write: Writer is destroyed and the call returns.
return_Root(m) ==
  LET m1 == leave(destroy(m))
  IN IF m1.status = "fatal" THEN m1 ELSE [m1 EXCEPT !.status = "returned"]

----------------------------------------------------------------------------
\* The inputs explored.

SeqsUpTo(S, n) == UNION {[1..k -> S] : k \in 0..n}
Fill(k) == [i \in 1..k |-> 170]

Versions == {1, 16909060}
Indices == 0..(MaxFields - 1)
Counts == 0..MaxFields \cup {UINT_MAX}
Deltas == {0, 1, UINT_MAX}

BuiltinScalars == {U8(7), U16(513), U32(1), U32(2), Str(<<104, 105>>), None}
UserScalars == {UScalar(L, Fill(k)) : L \in 0..MaxLen, k \in 0..MaxLen}
Bools == {Bool(TRUE), Bool(FALSE)}

\* Types whose WrapperTypeTraits make any calls, at any index.
AnyWrappers(V) ==
  {UWrap(cs) : cs \in SeqsUpTo({Arg(v, d) : v \in V, d \in Deltas}, MaxDelegates)}

\* Types whose ObjectTraits declare any count and make any calls, at any index.
AnyObjects(V) ==
  {Obj(K, cs) : K \in Counts,
                cs \in SeqsUpTo({Arg(v, i) : v \in V, i \in Indices}, MaxFields)}

\* Types whose ObjectTraits write the declared fields in order.
GoodObjects(V) ==
  {Obj(Len(vs), [i \in 1..Len(vs) |-> Arg(vs[i], i - 1)]) : vs \in SeqsUpTo(V, MaxFields)}

\* Objects that write their fields in order, one of them the value v.
Around(v) ==
  {Obj(1, <<Arg(v, 0)>>),
   Obj(2, <<Arg(U8(7), 0), Arg(v, 1)>>),
   Obj(2, <<Arg(v, 0), Arg(U8(7), 1)>>)}

\* Values that keep their contract, nested to depth d: objects around one
\* value of depth d - 1 and wrappers of it.
RECURSIVE Deep(_)
Deep(d) ==
  IF d = 0 THEN {U8(7), Obj(0, <<>>)}
  ELSE LET V == Deep(d - 1)
       IN V \cup UNION {Around(v) : v \in V} \cup {UWrap(<<Arg(v, 0)>>) : v \in V}

\* Objects of a declared count with one field of a wrapper type, written at
\* any index, alone or after a first field.
WrapperRoots ==
  {Obj(K, pre \o <<Arg(w, i)>>) :
     K \in 1..MaxFields, pre \in {<<>>, <<Arg(U8(7), 0)>>},
     w \in Bools \cup AnyWrappers({U8(1)}), i \in Indices}

\* The roots explored with a sink that has room: objects at fault, scalars at
\* fault, wrappers at fault, a child at fault, a parent at fault, and values
\* not at fault, wide and deep.
Roots ==
  AnyObjects({U8(7), None})
    \cup GoodObjects(BuiltinScalars \cup UserScalars)
    \cup WrapperRoots
    \cup UNION {Around(v) : v \in AnyObjects({U8(7)})}
    \cup AnyObjects({U8(7), Obj(0, <<>>), Obj(1, <<Arg(U8(7), 0)>>)})
    \cup GoodObjects({U8(7)} \cup GoodObjects({U8(7)}))
    \cup {v \in Deep(MaxDepth) : v.kind = "object"}

\* The roots explored with a sink of little room, and its room.
\* Roots of programs that do not build: a root or a field of a type with none
\* or more than one of the traits, directly or behind a wrapper, and a root of
\* a type without ObjectTraits.
UntraitedRoots ==
  LET V == {Typed(k) : k \in UntraitedKinds}
  IN V \cup {U8(7), Bool(TRUE), UWrap(<<Arg(Obj(0, <<>>), 0)>>)}
       \cup UNION {Around(v) : v \in V}
       \cup {Obj(1, <<Arg(UWrap(<<Arg(v, 0)>>), 0)>>) : v \in V}

SmallRoots ==
  GoodObjects({U8(7), U32(1), Str(<<104, 105>>), None, Bool(TRUE),
               Obj(1, <<Arg(U8(7), 0)>>)})
Capacities == {0, 4, 8, 9, 12, 13}

\* capacity is {} for a stream that grows, {c} for one of c bytes.
Init ==
  /\ validating \in BOOLEAN
  /\ ProtocolVersion \in Versions
  /\ \/ Object \in Roots \cup UntraitedRoots /\ capacity = {}
     \/ Object \in SmallRoots /\ \E c \in Capacities : capacity = {c}
  /\ sink = <<>>
  /\ writers = <<>>
  /\ frames = <<>>
  /\ status = "ready"
  /\ violation = ""
  /\ sinkFailed = FALSE
  /\ sinkAtFailure = <<>>
  /\ closed = <<>>
  /\ scalars = <<>>

----------------------------------------------------------------------------
\* The steps of one emission.

Install(m) ==
  /\ sink' = m.sink
  /\ writers' = m.writers
  /\ frames' = m.frames
  /\ status' = m.status
  /\ violation' = m.violation
  /\ sinkFailed' = m.sinkFailed
  /\ sinkAtFailure' = m.sinkAtFailure
  /\ closed' = m.closed
  /\ scalars' = m.scalars
  /\ UNCHANGED <<validating, capacity, ProtocolVersion, Object>>

\* The running traits function and the call it makes next, if any.
Running == status = "running"
TopFrame == Top(frames)
HasCall == Running /\ HasCallIn(M)
Call == CallIn(M)
CallIndex == CallIndexIn(M)
Returns(k) == Running /\ ~HasCall /\ TopFrame.kind = k
Called == CalledIn(M)

\* The caller runs the static write; only a program that compiles runs.
WriteRoot ==
  /\ status = "ready"
  /\ Instantiates_Root(Object)
  /\ Install(write_Root(M, ProtocolVersion, Object))

\* The running ObjectTraits or WrapperTypeTraits write function writes a field
\* of a type with ObjectTraits.
WriteObject ==
  /\ HasCall
  /\ Viable(Call.val) = {"Object"}
  /\ Install(write_Object(Called, Call.val, CallIndex))

\* ... of a type with ScalarTraits.
WriteScalar ==
  /\ HasCall
  /\ Viable(Call.val) = {"Scalar"}
  /\ Install(write_Scalar(Called, Call.val, CallIndex))

\* ... of a type with WrapperTypeTraits.
WriteWrapper ==
  /\ HasCall
  /\ Viable(Call.val) = {"Wrapper"}
  /\ Install(write_Wrapper(Called, Call.val, CallIndex))

\* ObjectTraits<T>::write returns.
ReturnObject ==
  /\ Returns("object")
  /\ Install(return_Object(M))

\* WrapperTypeTraits<T>::write returns.
ReturnWrapper ==
  /\ Returns("wrapper")
  /\ Install(return_Wrapper(M))

\* The write of the root has returned to the static write.
ReturnRoot ==
  /\ Returns("root")
  /\ Install(return_Root(M))

Next ==
  \/ WriteRoot
  \/ WriteObject
  \/ WriteScalar
  \/ WriteWrapper
  \/ ReturnObject
  \/ ReturnWrapper
  \/ ReturnRoot

Spec == Init /\ [][Next]_vars

----------------------------------------------------------------------------
\* The claims.

Range(s) == {s[i] : i \in 1..Len(s)}
Iota(n) == [i \in 1..n |-> i - 1]
Slice(s, from, n) == SubSeq(s, from + 1, from + n)
AllWriters == Range(writers) \cup Range(closed)

\* C1: in a validating build the indices accepted on one writer are exactly
\* 0, 1, 2, ... without gap or repeat, each below the declared count; a write
\* at any other index was not accepted (the assert fired and nothing ran).
C1_AcceptedInOrder ==
  validating =>
    \A w \in AllWriters :
      /\ w.accepted = Iota(Len(w.accepted))
      /\ w.CurrentFieldIndex = Len(w.accepted)
      /\ w.accepted # <<>> => ULess(Len(w.accepted) - 1, w.NumFields)

\* Index 0 was accepted and the next write, not at index 1, was rejected.
C1_Witness ==
  /\ validating
  /\ status = "fatal"
  /\ violation = "Writing index out of order"
  /\ Top(writers).accepted = <<0>>
  /\ Top(writers).NumFields = 2

\* C2: in a validating build every writer destroyed had as many fields
\* written as it declared, and the count an object emitted is the number of
\* fields written through its writer.
C2_ClosedComplete ==
  validating =>
    \A w \in Range(closed) :
      /\ w.CurrentFieldIndex = w.NumFields
      /\ Len(w.accepted) = w.NumFields
      /\ w.CountOffset >= 0 =>
           Slice(sink, w.CountOffset, 4) = LE(Len(w.accepted), 4)

\* A child with no field was destroyed, then the parent was destroyed with one
\* field written of the two it declared.
C2_Witness ==
  /\ validating
  /\ status = "fatal"
  /\ violation = "Object had more or less elements than specified"
  /\ \E w \in Range(closed) : w.NumFields = 0 /\ w.CountOffset >= 0
  /\ Top(writers).NumFields = 2
  /\ Top(writers).accepted = <<0>>

\* C3: a scalar field write appends the declared length as 4 bytes and then
\* the content; in a validating build a write that ran to its end advanced the
\* offset by exactly the declared length.
C3_LengthMatchesContent ==
  \A s \in Range(scalars) :
    /\ ~s.failed => Slice(sink, s.StartOffset - 4, 4) = LE(s.ValueSize, 4)
    /\ ~s.failed => s.EndOffset >= s.StartOffset /\ s.EndOffset <= Len(sink)
    /\ validating => ~s.failed /\ s.EndOffset - s.StartOffset = s.ValueSize

\* A scalar was written to its end, then one that declared another length
\* than it wrote was rejected.
C3_Witness ==
  /\ validating
  /\ status = "fatal"
  /\ violation = "Number of written bytes does not match size returned by ScalarTraits<T>::size"
  /\ Len(scalars) = 1
  /\ scalars[1].ValueSize = 4

\* The synthetic writer of the static write, live or destroyed.
RootWriter == IF status = "returned" THEN closed[Len(closed)] ELSE writers[1]

\* C4: the stream starts with the 4 bytes of the version, followed at once by
\* the root object's own count; the synthetic writer has count 1, which is
\* never written, and one field accepted, at index 0; it is destroyed with
\* one field written when the emitter returns.
C4_RootFraming ==
  (status \in {"running", "returned"} /\ ~sinkFailed) =>
    /\ Slice(sink, 0, 4) = LE(ProtocolVersion, 4)
    /\ Slice(sink, 4, 4) = LE(Object.n, 4)
    /\ RootWriter.NumFields = 1
    /\ RootWriter.CountOffset = -1
    /\ RootWriter.accepted = <<0>>
    /\ RootWriter.CurrentFieldIndex = 1
    /\ status = "returned" => writers = <<>> /\ frames = <<>>

\* The emitter has returned from a root of two fields.
C4_Witness ==
  /\ status = "returned"
  /\ validating
  /\ Object.n = 2
  /\ Len(sink) > 8

\* The reference encoding of the wire format: Enc(object) is the count of its
\* fields in 4 bytes and then its fields, Enc(scalar) the length of its
\* content in 4 bytes and then its content, and a wrapper is encoded as its
\* delegate (true as uint8 1, false as uint8 0).
RefWidth(k) == CASE k = "uint8_t" -> 1 [] k = "uint16_t" -> 2 [] k = "uint32_t" -> 4
RefContent(v) ==
  IF v.kind \in {"uint8_t", "uint16_t", "uint32_t"}
  THEN [i \in 1..RefWidth(v.kind) |-> (v.n \div (256 ^ (i - 1))) % 256]
  ELSE v.bytes

RECURSIVE Concat(_)
Concat(ss) == IF ss = <<>> THEN <<>> ELSE Head(ss) \o Concat(Tail(ss))

RECURSIVE Enc(_)
Enc(v) ==
  IF v.kind = "object"
  THEN LE(Len(v.calls), 4) \o Concat([i \in 1..Len(v.calls) |-> Enc(v.calls[i].val)])
  ELSE IF v.kind = "bool" THEN <<1, 0, 0, 0, IF v.b THEN 1 ELSE 0>>
  ELSE IF v.kind = "wrapper" THEN Enc(v.calls[1].val)
  ELSE LE(Len(RefContent(v)), 4) \o RefContent(v)

\* Capabilities that keep their contract: an object writes the fields it
\* declared, in order; a scalar writes the length it declared; a wrapper
\* writes one delegate, at the index it was given.
RECURSIVE WellFormed(_)
WellFormed(v) ==
  IF v.kind = "object"
  THEN /\ v.n = Len(v.calls)
       /\ \A i \in 1..Len(v.calls) : v.calls[i].idx = i - 1 /\ WellFormed(v.calls[i].val)
  ELSE IF v.kind = "wrapper"
  THEN Len(v.calls) = 1 /\ v.calls[1].idx = 0 /\ WellFormed(v.calls[1].val)
  ELSE IF v.kind = "scalar" THEN v.n = Len(v.bytes)
  ELSE TRUE

ScenarioA == Obj(2, <<Arg(U32(1), 0), Arg(U32(2), 1)>>)
ScenarioB == Obj(1, <<Arg(None, 0)>>)
ScenarioC == Obj(1, <<Arg(Obj(1, <<Arg(U8(7), 0)>>), 0)>>)

Completed == status = "returned" /\ ~sinkFailed

\* C5: for a value whose capabilities keep their contract, the bytes of a
\* completed emission are the version followed by the reference encoding of
\* the root; version 1 with a root of two fields uint32 1 and uint32 2 gives
\* 01 00 00 00, 02 00 00 00, 04 00 00 00 01 00 00 00, 04 00 00 00 02 00 00 00.
C5_ReferenceEncoding ==
  /\ (Completed /\ WellFormed(Object)) =>
       sink = LE(ProtocolVersion, 4) \o Enc(Object)
  /\ (Completed /\ Object = ScenarioA /\ ProtocolVersion = 1) =>
       sink = <<1, 0, 0, 0, 2, 0, 0, 0, 4, 0, 0, 0, 1, 0, 0, 0, 4, 0, 0, 0, 2, 0, 0, 0>>

\* The emission of scenario A has returned.
C5_Witness ==
  /\ status = "returned"
  /\ Object = ScenarioA
  /\ ProtocolVersion = 1
  /\ Len(sink) = 24

\* A step that writes an object field, or returns from one.
C6_ObjectStep ==
  /\ (HasCall /\ Call.val.kind = "object" /\ status' = "running" /\ ~sinkFailed') =>
       sink' = sink \o LE(Call.val.n, 4)
  /\ Returns("object") => sink' = sink

\* C6: the write of an object field appends the 4 bytes of the child's count
\* and nothing else, the return from it appends nothing, at any depth; a
\* root of one field that is an object of one field uint8 7 gives the counts
\* 1 and 1, the length 1 and the byte 07.
C6_NoExtraFraming ==
  /\ [][C6_ObjectStep]_vars
  /\ [](Completed /\ Object = ScenarioC =>
          sink = LE(ProtocolVersion, 4) \o <<1, 0, 0, 0, 1, 0, 0, 0, 1, 0, 0, 0, 7>>)

\* The emission of scenario C has returned.
C6_Witness ==
  /\ status = "returned"
  /\ Object = ScenarioC
  /\ Len(sink) = 17

\* A step that writes the empty marker.
C7_NoneStep ==
  (HasCall /\ Call.val.kind = "NoneType" /\ status' = "running" /\ ~sinkFailed') =>
    /\ sink' = sink \o <<0, 0, 0, 0>>
    /\ Len(writers') = Len(writers)
    /\ Top(writers').CurrentFieldIndex = Top(writers).CurrentFieldIndex + 1
    /\ \A i \in 1..(Len(writers) - 1) : writers'[i] = writers[i]

\* C7: the write of the empty marker takes one field slot of the writer and
\* appends the 4 bytes of the length 0 and no content.
C7_EmptyMarker ==
  /\ [][C7_NoneStep]_vars
  /\ [](Completed /\ Object = ScenarioB =>
          sink = LE(ProtocolVersion, 4) \o <<1, 0, 0, 0, 0, 0, 0, 0>>)

\* The emission of scenario B has returned.
C7_Witness ==
  /\ status = "returned"
  /\ Object = ScenarioB
  /\ Len(sink) = 12
  /\ closed[1].accepted = <<0>>

\* One step of the emission from the state m, and the emission run from m
\* until the activations above the d innermost have returned or an assert
\* has fired.
StepIn(m) ==
  IF HasCallIn(m) THEN write(CalledIn(m), CallIn(m).val, CallIndexIn(m))
  ELSE IF Top(m.frames).kind = "object" THEN return_Object(m)
  ELSE IF Top(m.frames).kind = "wrapper" THEN return_Wrapper(m)
  ELSE return_Root(m)

RECURSIVE Finish(_, _)
Finish(m, d) ==
  IF m.status = "fatal" \/ Len(m.frames) <= d THEN m ELSE Finish(StepIn(m), d)

\* Writer.write(Value, Index) on the innermost writer of the current state,
\* run to its return.
FieldWrite(v, Index) == Finish(write(M, v, Index), Len(frames))

\* The write that gave a did what the write that gave b did: where b was
\* accepted the two states are the same, where b was rejected a was rejected
\* by the same assert, with the same bytes and writers.
SameWrite(a, b) ==
  IF b.status = "fatal"
  THEN /\ a.status = "fatal"
       /\ a.violation = b.violation
       /\ a.sink = b.sink
       /\ a.writers = b.writers
  ELSE a = b

\* C8: at every index, the write of true gives the bytes and the writer
\* state the write of uint8 1 gives there, and the write of false those of
\* uint8 0; the one is accepted where the other is.
C8_BoolAsUint8 ==
  Running =>
    \A i \in 0..MaxFields :
      /\ SameWrite(FieldWrite(Bool(TRUE), i), FieldWrite(U8(1), i))
      /\ SameWrite(FieldWrite(Bool(FALSE), i), FieldWrite(U8(0), i))

\* The emission of a root whose one field is true has returned.
C8_Witness ==
  /\ status = "returned"
  /\ validating
  /\ Object = Obj(1, <<Arg(Bool(TRUE), 0)>>)
  /\ sink = LE(ProtocolVersion, 4) \o <<1, 0, 0, 0, 1, 0, 0, 0, 1>>

\* A step that returns from the write of a wrapper.
C9_WrapperStep ==
  (validating /\ Returns("wrapper") /\ status' # "fatal") =>
    /\ Len(FrameCalls(TopFrame)) = 1
    /\ Top(writers).CurrentFieldIndex = TopFrame.LengthBeforeWrite + 1

\* C9: in a validating build the write of a wrapper returns only if the
\* conversion made exactly one delegate write on the writer.
C9_OneDelegate == [][C9_WrapperStep]_vars

\* A wrapper that made two delegate writes, both accepted, was rejected.
C9_Witness ==
  /\ validating
  /\ status = "fatal"
  /\ violation = "WrapperTypeTraits did not call BinaryWriter.write"
  /\ Len(FrameCalls(TopFrame)) = 2
  /\ Top(writers).accepted = <<0, 1>>

\* C10: once a write on the sink has failed no byte is appended any more and
\* the emitter does not return as if the stream were written.
C10_FailureAbandons ==
  sinkFailed => sink = sinkAtFailure /\ status # "returned"

\* The types a write of v instantiates Writer.write for, and one type for
\* every combination of the three traits.
RECURSIVE TypesIn(_)
TypesIn(v) ==
  {v} \cup UNION {TypesIn(TraitsCalls(v)[i].val) : i \in 1..Len(TraitsCalls(v))}
Combinations ==
  {Typed(k) : k \in UntraitedKinds} \cup {Obj(0, <<>>), U8(7), Bool(TRUE)}
OneTrait(v) == Cardinality(Specialized(v)) = 1

\* A field write follows the strategy of the one capability of its type: an
\* object gets a writer of its own and its traits run, a scalar is written
\* at once, a wrapper hands the writer it was given to its traits.
C11_Strategy ==
  (HasCall /\ status' = "running") =>
    LET T == Specialized(Call.val)
    IN /\ OneTrait(Call.val)
       /\ T = {"ObjectTraits"} =>
            /\ Len(writers') = Len(writers) + 1
            /\ Len(frames') = Len(frames) + 1
            /\ Top(frames').kind = "object" /\ Top(frames').node = Call.val
            /\ scalars' = scalars
       /\ T = {"ScalarTraits"} =>
            /\ Len(writers') = Len(writers)
            /\ Len(frames') = Len(frames)
            /\ Len(scalars') = Len(scalars) + 1
       /\ T = {"WrapperTypeTraits"} =>
            /\ writers' = writers
            /\ Len(frames') = Len(frames) + 1
            /\ Top(frames').kind = "wrapper" /\ Top(frames').node = Call.val
            /\ sink' = sink /\ scalars' = scalars

\* C11: a field write of a type compiles if and only if exactly one of the
\* three traits is specialised for it, and then follows the strategy of that
\* trait; the static write compiles, and the emission runs, only for a root
\* with ObjectTraits all of whose fields can be written.
C11_ExactlyOneCapability ==
  /\ [][C11_Strategy]_vars
  /\ [](/\ \A v \in Combinations \cup TypesIn(Object) : Resolves(v) <=> OneTrait(v)
        /\ \A v \in Combinations \cup TypesIn(Object) :
             Resolves(v) => Viable(v) =
               {CASE has_ObjectTraits(v) -> "Object"
                  [] has_ScalarTraits(v) -> "Scalar"
                  [] has_WrapperTypeTraits(v) -> "Wrapper"}
        /\ \A v \in Combinations : Instantiates_Root(v) => has_ObjectTraits(v)
        /\ Instantiates_Root(Object) <=>
             has_ObjectTraits(Object) /\ \A v \in TypesIn(Object) : OneTrait(v)
        /\ status # "ready" =>
             has_ObjectTraits(Object) /\ \A v \in TypesIn(Object) : OneTrait(v))

\* The emission of a root with a scalar field and a wrapper field around an
\* object has returned.
C11_Witness ==
  /\ status = "returned"
  /\ Object = Obj(2, <<Arg(U8(7), 0), Arg(UWrap(<<Arg(Obj(0, <<>>), 0)>>), 1)>>)
  /\ Len(closed) = 3
  /\ Len(scalars) = 1

\* A step leaves the count of every writer that stays alive as it was, and a
\* writer is destroyed with the count it had.
C12_CountStep ==
  /\ \A i \in 1..Len(writers) :
       i <= Len(writers') =>
         /\ writers'[i].NumFields = writers[i].NumFields
         /\ writers'[i].Declarations = writers[i].Declarations
  /\ \A i \in 1..Len(closed) : closed'[i] = closed[i]
  /\ Len(closed') > Len(closed) => closed' = Append(closed, Top(writers))

\* C12: the count of a writer is assigned once, before any field is written
\* through it, and keeps its value as long as the writer lives; in a
\* validating build a field write on a writer whose count is unset and a
\* second declaration of the count are rejected, with nothing appended.
C12_CountSetOnce ==
  /\ [][C12_CountStep]_vars
  /\ [](/\ \A w \in AllWriters :
             /\ w.Declarations <= 1
             /\ w.accepted # <<>> => w.Declarations = 1
             /\ (validating /\ w.accepted # <<>>) => w.NumFields # UINT_MAX
             /\ (validating /\ w.Declarations = 1) => w.NumFields # UINT_MAX
        /\ status # "fatal" => \A w \in AllWriters : w.Declarations = 1
        /\ (validating /\ Running) =>
             /\ \A i \in 0..MaxFields : \A v \in {U8(7), Obj(0, <<>>)} :
                  LET r == write(construct(M), v, i)
                  IN /\ r.status = "fatal"
                     /\ r.violation = "setNumFields must be called before writing any value"
                     /\ r.sink = sink
             /\ \A K \in Counts \ {UINT_MAX} :
                  LET r == setNumFields(M, K)
                  IN /\ r.status = "fatal"
                     /\ r.violation = "NumFields has already been set"
                     /\ r.sink = sink
                     /\ Top(r.writers).NumFields = Top(writers).NumFields)

\* Fields are being written through a child writer, after its count and
\* that of its parent were declared.
C12_Witness ==
  /\ validating
  /\ Running
  /\ Len(writers) = 3
  /\ writers[2].NumFields = 2 /\ writers[2].accepted = <<0, 1>>
  /\ writers[3].NumFields = 1 /\ writers[3].accepted = <<0>>
  /\ writers[3].CountOffset > writers[2].CountOffset

\* A step that returns from the write of a wrapper without an assert firing.
C13_WrapperStep ==
  (validating /\ Returns("wrapper") /\ status' # "fatal") =>
    /\ TopFrame.Index = TopFrame.LengthBeforeWrite
    /\ \A i \in 1..Len(FrameCalls(TopFrame)) : FrameCalls(TopFrame)[i].idx = 0

\* C13: in a validating build the write of a wrapper at index i returns only
\* if i was the next expected index of the writer when it was requested, and
\* the delegate was written at that same index i.
C13_WrapperAtIndex == [][C13_WrapperStep]_vars

\* The innermost writer has had all the fields it declared.
Full == Top(writers).CurrentFieldIndex = Top(writers).NumFields

\* A step on a writer that has had all its fields, and the steps of an
\* object that declares no field.
C14_IndexStep ==
  /\ (validating /\ HasCall /\ Full) =>
       \/ status' = "fatal" /\ sink' = sink
       \/ Viable(Call.val) = {"Wrapper"} /\ status' = "running" /\ writers' = writers
  /\ (validating /\ HasCall /\ Viable(Call.val) = {"Object"} /\ Call.val.n = 0
        /\ status' = "running") =>
       /\ Top(writers').NumFields = 0
       /\ Top(writers').CurrentFieldIndex = 0
       /\ Full'
  /\ (validating /\ Returns("object") /\ Top(writers).NumFields = 0
        /\ Top(writers).accepted = <<>>) =>
       /\ status' = "running"
       /\ sink' = sink
       /\ closed' = Append(closed, Top(writers))

\* C14: in a validating build the next expected index of a writer with a
\* declared count K stays within 0 .. K and is the number of field writes
\* accepted on it; a writer that has had K fields accepts no field write at
\* any index; an object that declares 0 is closed with no field written.
C14_IndexWithinCount ==
  /\ [][C14_IndexStep]_vars
  /\ [](validating =>
          /\ \A w \in AllWriters :
               w.NumFields # UINT_MAX =>
                 /\ w.CurrentFieldIndex >= 0
                 /\ ~ULess(w.NumFields, w.CurrentFieldIndex)
                 /\ w.CurrentFieldIndex = Len(w.accepted)
          /\ \A w \in Range(closed) : w.NumFields = 0 => w.accepted = <<>>
          /\ (Running /\ Full) =>
               \A i \in 0..(MaxFields + 1) :
                 \A v \in {U8(7), None, Obj(0, <<>>), Bool(TRUE)} :
                   LET r == FieldWrite(v, i)
                   IN /\ r.status = "fatal"
                      /\ r.sink = sink
                      /\ r.writers = writers
                      /\ i = Top(writers).CurrentFieldIndex =>
                           r.violation = "Writing more fields than object is expected to have")

\* An object that declared no field was closed, then a second field write
\* on its parent, which declared one field, was rejected.
C14_Witness ==
  /\ validating
  /\ status = "fatal"
  /\ violation = "Writing more fields than object is expected to have"
  /\ \E w \in Range(closed) : w.NumFields = 0 /\ w.CountOffset >= 0 /\ w.accepted = <<>>
  /\ Top(writers).NumFields = 1
  /\ Top(writers).CurrentFieldIndex = 1

\* The running activations of ObjectTraits<T>::write, outermost first.
ObjectFrames == SelectSeq(frames, LAMBDA f : f.kind = "object")

\* A step of a running emission touches the innermost writer only: it writes
\* a field through it, puts a child on it, or destroys it.
C15_LifetimeStep ==
  Running =>
    LET n == Len(writers)
    IN /\ Len(writers') \in {n - 1, n, n + 1}
       /\ \A i \in 1..(n - 1) : i <= Len(writers') => writers'[i] = writers[i]
       /\ Len(writers') = n => closed' = closed
       /\ Len(writers') = n + 1 =>
            /\ HasCall /\ Viable(Call.val) = {"Object"}
            /\ writers'[n].accepted = Append(writers[n].accepted, CallIndex)
            /\ writers'[n + 1].accepted = <<>>
            /\ closed' = closed
            /\ (status' = "running" /\ ~sinkFailed') =>
                 /\ sink' = sink \o LE(Call.val.n, 4)
                 /\ writers'[n + 1].CountOffset = Len(sink)
                 /\ writers'[n + 1].NumFields = Call.val.n
       /\ Len(writers') = n - 1 =>
            /\ Returns(IF n = 1 THEN "root" ELSE "object")
            /\ closed' = Append(closed, writers[n])
            /\ validating => writers[n].CurrentFieldIndex = writers[n].NumFields
            /\ sink' = sink
            /\ frames' = Pop(frames)

\* C15: the live writers are a stack with the synthetic writer at the bottom
\* and one writer above it for every object being written, created in the
\* field write of the writer below it; the count of a writer is in the
\* stream before its fields; only the innermost writer is written through or
\* destroyed, and a writer is destroyed, its count checked, when the write of
\* its object returns; none is left when the emitter returns.
C15_NestedLifetimes ==
  /\ [][C15_LifetimeStep]_vars
  /\ [](/\ status = "ready" => writers = <<>> /\ closed = <<>>
        /\ status = "returned" => writers = <<>> /\ frames = <<>>
        /\ Running =>
             /\ Len(writers) = Len(ObjectFrames) + 1
             /\ frames[1].kind = "root"
             /\ writers[1].CountOffset = -1
             /\ \A j \in 1..Len(ObjectFrames) :
                  /\ writers[j + 1].NumFields = ObjectFrames[j].node.n
                  /\ writers[j].accepted # <<>>
                  /\ ~sinkFailed =>
                       /\ writers[j + 1].CountOffset > writers[j].CountOffset
                       /\ writers[j + 1].CountOffset >= 4
                       /\ Slice(sink, writers[j + 1].CountOffset, 4)
                            = LE(ObjectFrames[j].node.n, 4)
                       /\ \A sc \in Range(scalars) :
                            sc.StartOffset - 4 > writers[j + 1].CountOffset
                              \/ sc.EndOffset <= writers[j + 1].CountOffset)

\* Three objects are being written, one in the other, after another was
\* written to its end.
C15_Witness ==
  /\ Running
  /\ validating
  /\ Len(writers) = 4
  /\ Len(closed) >= 1
  /\ writers[4].CountOffset > writers[3].CountOffset

RECURSIVE Sum(_)
Sum(ns) == IF ns = <<>> THEN 0 ELSE Head(ns) + Sum(Tail(ns))

\* The number of objects in a value.
RECURSIVE ObjectsIn(_)
ObjectsIn(v) ==
  LET cs == TraitsCalls(v)
  IN (IF v.kind = "object" THEN 1 ELSE 0)
       + Sum([i \in 1..Len(cs) |-> ObjectsIn(cs[i].val)])

\* The steps the write of a value takes up to its return, and the steps the
\* emission has left: for every running activation its return and the calls
\* it has still to make.
RECURSIVE Weight(_)
Weight(v) ==
  IF v.kind \in ScalarKinds THEN 1
  ELSE LET cs == TraitsCalls(v)
       IN 2 + Sum([i \in 1..Len(cs) |-> Weight(cs[i].val)])
FrameWeight(f) ==
  LET cs == FrameCalls(f)
  IN 1 + Sum([i \in 1..Len(cs) |-> IF i >= f.pos THEN Weight(cs[i].val) ELSE 0])
Remaining ==
  CASE status = "ready" -> Weight(Object) + 1
    [] status = "running" ->
         Sum([i \in 1..Len(frames) |-> FrameWeight(frames[i])])
    [] OTHER -> 0

\* The value builds and its capabilities keep their contract.
C16_Sound == Instantiates_Root(Object) /\ WellFormed(Object)

\* A step can be taken: the guard of one of the steps holds.
C16_CanStep ==
  \/ status = "ready" /\ Instantiates_Root(Object)
  \/ HasCall /\ Resolves(Call.val)
  \/ \E k \in {"object", "wrapper", "root"} : Returns(k)

\* The emission has returned with the whole stream written and every writer
\* destroyed with its fields complete.
C16_Done ==
  /\ status = "returned"
  /\ violation = ""
  /\ writers = <<>>
  /\ frames = <<>>
  /\ sink = LE(ProtocolVersion, 4) \o Enc(Object)
  /\ Len(closed) = ObjectsIn(Object) + 1
  /\ \A w \in Range(closed) : w.CurrentFieldIndex = w.NumFields

\* A step of the emission of a sound value takes one of the steps left.
C16_Step ==
  (C16_Sound /\ ~sinkFailed') =>
    /\ status' \in {"running", "returned"}
    /\ Remaining' = Remaining - 1

\* C16: the emission of a value whose capabilities keep their contract, to a
\* sink that does not fail, comes to its end: as long as it has not returned
\* a step can be taken, every step takes one of a finite number of steps
\* left, no assert fires, and when none is left the emitter has returned,
\* every writer is destroyed and the stream is complete.
C16_Terminates ==
  /\ [][C16_Step]_vars
  /\ []((C16_Sound /\ ~sinkFailed) =>
          /\ status # "fatal" /\ violation = ""
          /\ status \in {"ready", "running"} => C16_CanStep /\ Remaining > 0
          /\ status = "returned" => Remaining = 0 /\ C16_Done)

\* The emission of a value nested three deep has come to its end in a
\* validating build.
C16_Witness ==
  /\ validating
  /\ C16_Sound
  /\ ~sinkFailed
  /\ C16_Done
  /\ Len(closed) = 4
  /\ Len(scalars) >= 1

\* Objects of no field, of two fields, and nested two and three deep.
C17_Objects ==
  {Obj(0, <<>>), Obj(2, <<Arg(U8(7), 0), Arg(U8(7), 1)>>), ScenarioC,
   Obj(2, <<Arg(ScenarioC, 0), Arg(Obj(0, <<>>), 1)>>)}

\* The writers as they are after one field was written through the
\* innermost at index i.
C17_Advanced(i) ==
  [writers EXCEPT ![Len(writers)] =
     [@ EXCEPT !.CurrentFieldIndex = @ + 1, !.accepted = Append(@, i)]]

\* A step that writes an object field advances the writer it is written
\* through by one; no step changes a writer below the innermost.
C17_FrameStep ==
  Running =>
    LET n == Len(writers)
    IN /\ \A i \in 1..(n - 1) :
            i <= Len(writers') =>
              /\ writers'[i].NumFields = writers[i].NumFields
              /\ writers'[i].CurrentFieldIndex = writers[i].CurrentFieldIndex
       /\ (HasCall /\ Viable(Call.val) = {"Object"} /\ status' = "running") =>
            /\ Len(writers') = n + 1
            /\ writers'[n].NumFields = writers[n].NumFields
            /\ writers'[n].CurrentFieldIndex = writers[n].CurrentFieldIndex + 1
       /\ (Returns("object") /\ status' = "running") =>
            /\ Len(writers') = n - 1
            /\ writers'[n - 1] = writers[n - 1]

\* C17: the write of an object field, run to its return, leaves every writer
\* as it was but for the one it was written through, whose next expected
\* index is one more, whatever the fields and depth of the object; the
\* declaration of a count and the field writes on a child change no writer
\* that encloses it.
C17_ParentAdvancesByOne ==
  /\ [][C17_FrameStep]_vars
  /\ [](Running =>
          \A v \in C17_Objects :
            LET i == Top(writers).CurrentFieldIndex
                r == FieldWrite(v, i)
            IN /\ r.status # "fatal" =>
                    /\ r.writers = C17_Advanced(i)
                    /\ r.frames = frames
                    /\ Len(r.closed) = Len(closed) + ObjectsIn(v)
               /\ (~Full /\ capacity = {} /\ Top(writers).NumFields # UINT_MAX) =>
                    r.status # "fatal")

\* The write of a first field, an object of two fields, has returned to the
\* writer of the root.
C17_Witness ==
  /\ validating
  /\ Running
  /\ Len(writers) = 2
  /\ Top(writers).CurrentFieldIndex = 1
  /\ Top(writers).NumFields = 2
  /\ Len(closed) = 1
  /\ closed[1].accepted = <<0, 1>>

\* The asserts of validateAndIncreaseFieldIndex.
IndexViolations ==
  {"setNumFields must be called before writing any value",
   "Writing index out of order",
   "Writing more fields than object is expected to have"}

\* The write of v at index i from the state m was rejected by the validation
\* of the index and left the stream and the writers of m alone.
C18_Rejected(m, v, i) ==
  LET r == write(m, v, i)
  IN /\ r.status = "fatal"
     /\ r.violation \in IndexViolations
     /\ r.sink = m.sink
     /\ r.writers = m.writers
     /\ r.scalars = m.scalars

\* A step in which the write of an object or scalar field is rejected by
\* the validation of the index appends nothing.
C18_RejectStep ==
  (validating /\ HasCall /\ Viable(Call.val) \in {{"Object"}, {"Scalar"}}
     /\ status' = "fatal" /\ violation' \in IndexViolations) =>
    /\ sink' = sink
    /\ writers' = writers
    /\ scalars' = scalars

\* C18: in a validating build the write of an object or scalar field at a
\* wrong index, beyond the declared count, or on a writer with no count, is
\* rejected before a count, a length or content is appended: the stream is
\* what it was before the write.
C18_ValidationFirst ==
  /\ [][C18_RejectStep]_vars
  /\ []((validating /\ Running) =>
          \A v \in {U8(7), Str(<<104, 105>>), None, Obj(0, <<>>), ScenarioC} :
            \A i \in 0..(MaxFields + 1) \cup {UINT_MAX} :
              /\ (i # Top(writers).CurrentFieldIndex
                    \/ ~ULess(i, Top(writers).NumFields)) => C18_Rejected(M, v, i)
              /\ C18_Rejected(construct(M), v, i)
              /\ write(M, v, i).status = "fatal" =>
                   (C18_Rejected(M, v, i) \/ write(M, v, i).sinkFailed))

\* The first field write of the root, an object field requested at index 1,
\* was rejected with the version and the count of the root in the stream.
C18_Witness ==
  /\ validating
  /\ status = "fatal"
  /\ violation = "Writing index out of order"
  /\ Len(writers) = 2
  /\ TopFrame.pos = 2
  /\ FrameCalls(TopFrame)[1].val.kind = "object"
  /\ FrameCalls(TopFrame)[1].idx = 1
  /\ sink = LE(ProtocolVersion, 4) \o LE(Object.n, 4)

\* Counts other than UINT_MAX: the small ones, those that fill one, two and
\* three bytes, 2^31 - 1, and 2^32 - 2.
C19_Counts == 0..MaxFields \cup {255, 256, 65536, 2147483647, UINT_MAX - 1}

\* A step that writes an object field whose count is UINT_MAX.
C19_SentinelStep ==
  (validating /\ HasCall /\ Viable(Call.val) = {"Object"} /\ Call.val.n = UINT_MAX) =>
    /\ status' = "fatal"
    /\ sink' = sink
    /\ violation' \in IndexViolations
         \/ /\ violation' = "NumFields may not be reset since it has already been written to the byte stream"
            /\ Top(writers').NumFields = UINT_MAX
            /\ Top(writers').Declarations = 0

\* C19: UINT_MAX is the value of a count not yet set; in a validating build
\* the declaration of the count UINT_MAX is rejected with nothing appended,
\* so the emission of a value with an object of that count does not return,
\* and the declaration of any other count on a writer with no count is
\* accepted, appends the count and leaves a count other than UINT_MAX.
C19_SentinelReserved ==
  /\ [][C19_SentinelStep]_vars
  /\ [](validating =>
          /\ ByteTreeWriter.NumFields = UINT_MAX
          /\ (\E v \in TypesIn(Object) : v.kind = "object" /\ v.n = UINT_MAX) =>
               status # "returned"
          /\ \A w \in AllWriters : w.Declarations = 1 <=> w.NumFields # UINT_MAX
          /\ Running =>
               /\ LET r == setNumFields(construct(M), UINT_MAX)
                  IN /\ r.status = "fatal"
                     /\ r.violation = "NumFields may not be reset since it has already been written to the byte stream"
                     /\ r.sink = sink
                     /\ Top(r.writers) = ByteTreeWriter
               /\ \A K \in C19_Counts :
                    LET r == setNumFields(construct(M), K)
                    IN \/ r.sinkFailed /\ r.status = "fatal" /\ r.sink = sink
                       \/ /\ r.status = "running"
                          /\ r.sink = sink \o LE(K, 4)
                          /\ Top(r.writers).NumFields = K
                          /\ Top(r.writers).NumFields # ByteTreeWriter.NumFields)

\* The write of a second-level object that declares the count UINT_MAX was
\* rejected, with the version and the count of the root in the stream.
C19_Witness ==
  /\ validating
  /\ status = "fatal"
  /\ violation = "NumFields may not be reset since it has already been written to the byte stream"
  /\ Len(writers) = 3
  /\ Top(writers).NumFields = UINT_MAX
  /\ writers[2].accepted = <<0>>
  /\ sink = LE(ProtocolVersion, 4) \o LE(Object.n, 4)

====
